---------------------------- MODULE Spec2Model ----------------------------
(***************************************************************************)
(* Streaming validation engine of guardrails/validator_base.py.            *)
(*                                                                         *)
(* Texts are sequences of one-character strings.  An optional value is a   *)
(* sequence of length at most one: <<>> is Python's None, <<x>> is x.      *)
(***************************************************************************)
EXTENDS Integers, Sequences, FiniteSets, TLC

(***************************************************************************)
(* Bounds and input sets                                                   *)
(***************************************************************************)

\* Total number of validate_stream calls explored, over all instances.
MaxCalls == 3

\* Two Validator instances of the same class.
Insts == {"A", "B"}

Hello_wor == <<"H", "e", "l", "l", "o", " ", "w", "o", "r">>
ld_Next_s == <<"l", "d", ".", " ", "N", "e", "x", "t", " ", "s">>
entence == <<"e", "n", "t", "e", "n", "c", "e", ".">>
Hello_world == <<"H", "e", "l", "l", "o", " ", "w", "o", "r", "l", "d", ".">>
Next_sentence == <<"N", "e", "x", "t", " ", "s", "e", "n", "t", "e", "n", "c", "e", ".">>
b_c == <<"b", ".", "c", ".">>
EmptyText == <<>>

\* The chunks a caller may feed: a chunk without a period, a chunk with a
\* period inside, a chunk ending in a period, and a chunk carrying two
\* sentences.
Chunks == {Hello_wor, ld_Next_s, entence, b_c}

None == <<>>
Some(x) == <<x>>

(***************************************************************************)
(* Python string primitives                                                *)
(***************************************************************************)

\* "." in s
HasPeriod(s) == \E k \in 1..Len(s) : s[k] = "."

\* s.split("."): the fragments between the periods, periods removed.
RECURSIVE str_split(_)
str_split(s) ==
    IF ~HasPeriod(s) THEN <<s>>
    ELSE LET p == CHOOSE k \in 1..Len(s) :
                     /\ s[k] = "."
                     /\ \A j \in 1..(k - 1) : s[j] # "."
         IN  <<SubSeq(s, 1, p - 1)>> \o str_split(SubSeq(s, p + 1, Len(s)))

\* sep.join(parts)
RECURSIVE str_join(_, _)
str_join(sep, parts) ==
    IF parts = <<>> THEN <<>>
    ELSE IF Len(parts) = 1 THEN parts[1]
    ELSE parts[1] \o sep \o str_join(sep, Tail(parts))

(***************************************************************************)
(* Chunking                                                                *)
(***************************************************************************)

split_sentence_str_joins_without_period(chunk) ==
    IF ~HasPeriod(chunk) THEN <<>>
    ELSE LET fragments == str_split(chunk)
         IN  <<fragments[1] \o <<".">>, str_join(<<>>, Tail(fragments))>>

split_sentence_str_drops_period(chunk) ==
    IF ~HasPeriod(chunk) THEN <<>>
    ELSE LET fragments == str_split(chunk)
         IN  <<fragments[1], str_join(<<".">>, Tail(fragments))>>

\* split_sentence_str: [] without a period, else [first sentence, rest].
split_sentence_str(chunk) ==
    IF ~HasPeriod(chunk) THEN <<>>
    ELSE LET fragments == str_split(chunk)
         IN  <<fragments[1] \o <<".">>, str_join(<<".">>, Tail(fragments))>>

\* Validator._chunking_function
chunking_function(chunk) == split_sentence_str(chunk)

(***************************************************************************)
(* State                                                                   *)
(***************************************************************************)

VARIABLES
    class_chunks,   \* Validator.accumulated_chunks, the list bound in the class body
    own,            \* own[i]: instance i has its own accumulated_chunks attribute
    inst_chunks,    \* inst_chunks[i]: that attribute's list (when own[i])
    fed,            \* fed[i]: the (chunk, remainder) arguments of the calls on i
    released,       \* released[i]: the units instance i passed to validate
    ncalls,         \* number of validate_stream calls so far
    last,           \* observation of the most recent validate_stream call
    tree,           \* the value tree the orchestrator is assembling
    refrain_added,  \* a Refrain sentinel was put into the tree
    nbuilt,         \* number of assembly steps so far
    prop,           \* observation of tree propagation on the assembled tree
    validator,      \* the attributes of one constructed Validator
    ev,             \* observation of the most recent call on that Validator
    nops,           \* number of calls on that Validator so far
    left,           \* the Validator on the left of ==
    right,          \* the object on the right of ==
    cmp             \* observation of the most recent == of the two

streamVars == <<class_chunks, own, inst_chunks, fed, released, ncalls, last>>
treeVars == <<tree, refrain_added, nbuilt, prop>>
runtimeVars == <<validator, ev, nops>>
promptVars == <<left, right, cmp>>
vars == <<class_chunks, own, inst_chunks, fed, released, ncalls, last,
          tree, refrain_added, nbuilt, prop, validator, ev, nops,
          left, right, cmp>>

\* self.accumulated_chunks: the instance attribute if there is one, else the
\* class attribute.
accumulated_chunks(i) == IF own[i] THEN inst_chunks[i] ELSE class_chunks

\* "".join(self.accumulated_chunks)
BufferedText(i) == str_join(<<>>, accumulated_chunks(i))

(***************************************************************************)
(* Results                                                                 *)
(***************************************************************************)

\* PassResult(): a passing result with every optional field unset.
PassResult == [outcome |-> "pass", validated_chunk |-> None, value_override |-> None]

NoResult == [outcome |-> "none", validated_chunk |-> None, value_override |-> None]

\* A marker validated_chunk set by a _validate implementation itself.
SetByValidate == <<"#">>

\* What a user-supplied _validate may do with a value: return Pass or Fail,
\* with or without validated_chunk set, or raise.
ValidateOutcomes(value) ==
    { [outcome |-> "pass", validated_chunk |-> None, value_override |-> None],
      [outcome |-> "pass", validated_chunk |-> Some(SetByValidate),
       value_override |-> Some(value)],
      [outcome |-> "fail", validated_chunk |-> None, value_override |-> None],
      [outcome |-> "fail", validated_chunk |-> Some(SetByValidate),
       value_override |-> None],
      [outcome |-> "raise", validated_chunk |-> None, value_override |-> None] }

(***************************************************************************)
(* Value trees                                                             *)
(*                                                                         *)
(* Every node is a record [kind, val, items].  A scalar carries its value  *)
(* in val; a list carries its items; a dict carries its entries in         *)
(* insertion order, each entry a node of kind "entry" with the key in val  *)
(* and the value as its only item.                                         *)
(***************************************************************************)

Scalar(v) == [kind |-> "scalar", val |-> v, items |-> <<>>]
FilterSentinel == [kind |-> "Filter", val |-> "", items |-> <<>>]
RefrainSentinel == [kind |-> "Refrain", val |-> "", items |-> <<>>]
ListOf(items) == [kind |-> "list", val |-> "", items |-> items]
DictOf(entries) == [kind |-> "dict", val |-> "", items |-> entries]
Entry(key, value) == [kind |-> "entry", val |-> key, items |-> <<value>>]

\* What stands in `prop` while no tree has been propagated.
NoProp == [state |-> "none", input |-> ListOf(<<>>), refrain |-> FALSE,
           filtered |-> ListOf(<<>>), again |-> ListOf(<<>>),
           delivered |-> ListOf(<<>>), refrain_after |-> FALSE,
           check_writes |-> {},
           effects |-> [value |-> ListOf(<<>>), writes |-> {}]]

TreeIdle ==
    /\ tree = ListOf(<<>>)
    /\ refrain_added = FALSE
    /\ nbuilt = 0
    /\ prop = NoProp

(***************************************************************************)
(* Validator attributes                                                    *)
(***************************************************************************)

\* What stands in `validator` before __init__ has run.
NoValidator == [state |-> "none", use_local |-> "None", creds |-> "none",
                hub_jwt_token |-> None, token |-> None,
                validation_endpoint |-> <<>>,
                on_fail_descriptor |-> "", on_fail_method |-> "none"]

\* No ValidationResult: validate was not called.
NoValidation == [outcome |-> "none", value_override |-> None, fix_value |-> None]

\* What stands in `ev` while no call has been made.
NoEvent == [op |-> "none", raised |-> "", returned |-> None,
            value |-> "", input_is_chat_message |-> FALSE,
            returned_is_message |-> FALSE,
            validation |-> NoValidation, corrected_with |-> None,
            dispatched |-> <<>>, requests |-> <<>>,
            response |-> [kind |-> "none", ok |-> FALSE, body |-> ""],
            logged |-> 0]

RuntimeIdle ==
    /\ validator = NoValidator
    /\ ev = NoEvent
    /\ nops = 0

\* A Validator of class rail_alias constructed with **kwargs.
ValidatorWith(rail_alias, kwargs) ==
    [is_validator |-> TRUE, rail_alias |-> rail_alias, _kwargs |-> kwargs]

\* An object that is not a Validator.
NotAValidator == [is_validator |-> FALSE, rail_alias |-> <<>>, _kwargs |-> <<>>]

\* No == evaluated yet.
NoCmp == [done |-> FALSE, equal |-> FALSE, left_prompt |-> <<>>,
          right_prompt |-> <<>>]

PromptIdle ==
    /\ left = NotAValidator
    /\ right = NotAValidator
    /\ cmp = NoCmp

StreamIdle ==
    /\ class_chunks = <<>>
    /\ own = [i \in Insts |-> FALSE]
    /\ inst_chunks = [i \in Insts |-> <<>>]
    /\ fed = [i \in Insts |-> <<>>]
    /\ released = [i \in Insts |-> <<>>]
    /\ ncalls = 0
    /\ last = [inst |-> "none", chunk |-> EmptyText, remainder |-> FALSE,
               before |-> <<>>, text |-> EmptyText, boundary |-> <<>>,
               split_contents |-> <<>>, validated |-> <<>>,
               returned |-> NoResult, result |-> NoResult]

Init == StreamIdle /\ TreeIdle /\ RuntimeIdle /\ PromptIdle

(***************************************************************************)
(* Validator.validate_stream                                               *)
(***************************************************************************)

AppendChunk_overwrites(chunks, chunk) == <<chunk>>

\* self.accumulated_chunks.append(chunk)
AppendChunk(chunks, chunk) == Append(chunks, chunk)

SplitContents_ignores_remainder(accumulated_text, remainder) ==
    chunking_function(accumulated_text)

SplitContents_keeps_text(accumulated_text, remainder) ==
    IF remainder THEN <<accumulated_text, accumulated_text>>
    ELSE chunking_function(accumulated_text)

\* split_contents: the chunking function's answer, overridden by
\* [accumulated_text, ""] when the remainder keyword is passed.
SplitContents(accumulated_text, remainder) ==
    IF remainder THEN <<accumulated_text, EmptyText>>
    ELSE chunking_function(accumulated_text)

NewAccumulatedChunks_keeps_unit(chunks, new_accumulated_chunks) ==
    <<str_join(<<>>, chunks)>>

NewAccumulatedChunks_keeps_old(chunks, new_accumulated_chunks) ==
    Append(chunks, new_accumulated_chunks)

\* self.accumulated_chunks = [new_accumulated_chunks]
NewAccumulatedChunks(chunks, new_accumulated_chunks) == <<new_accumulated_chunks>>

StampValidatedChunk_always(validation_result, chunk_to_validate) ==
    [validation_result EXCEPT !.validated_chunk = Some(chunk_to_validate)]

\* if validation_result.validated_chunk is None: set it to the unit
StampValidatedChunk(validation_result, chunk_to_validate) ==
    IF validation_result.validated_chunk = None
    THEN [validation_result EXCEPT !.validated_chunk = Some(chunk_to_validate)]
    ELSE validation_result

\* One call self.validate_stream(chunk, metadata, remainder=remainder) on
\* instance i, from the append to the return (or to validate's exception).
validate_stream(i, chunk, remainder) ==
    LET before == accumulated_chunks(i)
        appended == AppendChunk(before, chunk)
        accumulated_text == str_join(<<>>, appended)
        boundary == chunking_function(accumulated_text)
        split_contents == SplitContents(accumulated_text, remainder)
        seen == [inst |-> i, chunk |-> chunk, remainder |-> remainder,
                 before |-> before, text |-> accumulated_text,
                 boundary |-> boundary, split_contents |-> split_contents,
                 validated |-> <<>>, returned |-> NoResult, result |-> NoResult]
    IN
    /\ ncalls < MaxCalls
    /\ ncalls' = ncalls + 1
    /\ UNCHANGED <<treeVars, runtimeVars, promptVars>>
    /\ fed' = [fed EXCEPT ![i] = Append(@, [chunk |-> chunk, remainder |-> remainder])]
       \* the append mutates whichever list the attribute lookup found
    /\ class_chunks' = IF own[i] THEN class_chunks ELSE appended
    /\ IF Len(split_contents) = 0
       THEN /\ inst_chunks' = IF own[i] THEN [inst_chunks EXCEPT ![i] = appended]
                              ELSE inst_chunks
            /\ last' = [seen EXCEPT !.result = PassResult]
            /\ UNCHANGED <<own, released>>
       ELSE LET chunk_to_validate == split_contents[1]
                new_accumulated_chunks == split_contents[2]
            IN  \* the assignment creates (or rebinds) the instance attribute
                /\ own' = [own EXCEPT ![i] = TRUE]
                /\ inst_chunks' = [inst_chunks EXCEPT ![i] =
                       NewAccumulatedChunks(appended, new_accumulated_chunks)]
                /\ released' = [released EXCEPT ![i] = Append(@, chunk_to_validate)]
                /\ \E validation_result \in ValidateOutcomes(chunk_to_validate) :
                       last' = [seen EXCEPT
                           !.validated = <<chunk_to_validate>>,
                           !.returned = validation_result,
                           !.result =
                               IF validation_result.outcome = "raise"
                               THEN validation_result
                               ELSE StampValidatedChunk(validation_result,
                                                        chunk_to_validate)]

Next == \E i \in Insts, chunk \in Chunks, remainder \in BOOLEAN :
            validate_stream(i, chunk, remainder)

Spec == Init /\ [][Next]_vars

(***************************************************************************)
(* Vocabulary of the properties                                            *)
(***************************************************************************)

\* Some validate_stream call has been made; `last` describes it.
Called == last.inst # "none"

\* Instance i is the only instance that was ever fed.
OnlyFed(i) == \A j \in Insts \ {i} : fed[j] = <<>>

FedChunks(i) == [k \in 1..Len(fed[i]) |-> fed[i][k].chunk]

NoRemainder(i) == \A k \in 1..Len(fed[i]) : ~fed[i][k].remainder

IsPrefix(s, t) == Len(s) <= Len(t) /\ \A k \in 1..Len(s) : s[k] = t[k]

\* Index of the first period of a text that has one.
FirstPeriod(s) == CHOOSE k \in 1..Len(s) : s[k] = "." /\ \A j \in 1..(k - 1) : s[j] # "."

\* A validate_stream call with remainder=true has completed on instance i.
RemainderDone(i) == \E k \in 1..Len(fed[i]) : fed[i][k].remainder

C1Chunks == <<Hello_wor, ld_Next_s, entence>>

(***************************************************************************)
(* C1                                                                      *)
(***************************************************************************)

\* C1 (as claimed): feeding "Hello wor", "ld. Next s", "entence." with
\* remainder false to a lone instance with an empty buffer releases nothing
\* on the first call, "Hello world." on the second and "Next sentence." on
\* the third, and nothing else.
C1_UnitsAsClaimed ==
    \A i \in Insts :
        (OnlyFed(i) /\ NoRemainder(i) /\ IsPrefix(FedChunks(i), C1Chunks))
            => released[i] = SubSeq(<<Hello_world, Next_sentence>>, 1, Len(fed[i]) - 1)

\* C1 (amended): the same feeds release nothing on the first call,
\* "Hello world." on the second and " Next sentence." on the third: the
\* space after the first period stays at the head of the second unit.
C1_UnitsKeepLeadingSpace ==
    \A i \in Insts :
        (OnlyFed(i) /\ NoRemainder(i) /\ IsPrefix(FedChunks(i), C1Chunks))
            => released[i] = SubSeq(<<Hello_world, <<" ">> \o Next_sentence>>,
                                    1, Len(fed[i]) - 1)

C1_Witness ==
    \E i \in Insts :
        /\ OnlyFed(i) /\ NoRemainder(i)
        /\ Len(fed[i]) = 3 /\ IsPrefix(FedChunks(i), C1Chunks)
        /\ Len(released[i]) = 2

(***************************************************************************)
(* C2                                                                      *)
(***************************************************************************)

\* C2: a call with remainder=true validates exactly one unit, the buffered
\* text followed by the chunk, with or without a period in it, and leaves
\* the buffered text empty.
C2_RemainderFlushesAll ==
    (Called /\ last.remainder)
        => /\ last.validated = <<str_join(<<>>, last.before) \o last.chunk>>
           /\ BufferedText(last.inst) = EmptyText

\* A remainder call on a non-empty buffer whose text has no period, and one
\* whose text has periods, are both reached; the witness is the first.
C2_Witness ==
    /\ Called /\ last.remainder
    /\ str_join(<<>>, last.before) # EmptyText
    /\ ~HasPeriod(last.text)
    /\ last.validated = <<last.text>>

(***************************************************************************)
(* C3                                                                      *)
(***************************************************************************)

\* C3: a validate_stream call on one instance leaves the buffer and the
\* released units of every other instance as they were.
C3_NoSharedBuffer ==
    [][\A i \in Insts :
          last'.inst # i
              => /\ accumulated_chunks(i)' = accumulated_chunks(i)
                 /\ released'[i] = released[i]]_vars

(***************************************************************************)
(* C4                                                                      *)
(***************************************************************************)

\* C4 (as claimed): between calls on a lone instance, accumulated_chunks
\* holds at most one element.
C4_AtMostOneElement ==
    \A i \in Insts : OnlyFed(i) => Len(accumulated_chunks(i)) <= 1

\* C4 (amended): after a call that released a unit accumulated_chunks holds
\* exactly one element, the leftover; after a call that released none it
\* holds one element more than before the call.
C4_OneElementAfterRelease ==
    Called =>
        IF last.validated # <<>>
        THEN Len(accumulated_chunks(last.inst)) = 1
        ELSE Len(accumulated_chunks(last.inst)) = Len(last.before) + 1

C4_Witness ==
    /\ Called /\ OnlyFed(last.inst)
    /\ last.validated # <<>>
    /\ Len(last.before) >= 2
    /\ Len(accumulated_chunks(last.inst)) = 1

(***************************************************************************)
(* C5                                                                      *)
(***************************************************************************)

\* C5: after a validate_stream call returns, the buffered text holds no
\* complete unit: the boundary function finds nothing to release in it.
C5_NoCompleteUnitBuffered ==
    Called => chunking_function(BufferedText(last.inst)) = <<>>

(***************************************************************************)
(* C6                                                                      *)
(***************************************************************************)

\* C6: for a lone instance fed from an empty buffer, the released units in
\* release order followed by the buffered text spell exactly the chunks fed
\* so far, in order.
C6_TextConserved ==
    \A i \in Insts :
        OnlyFed(i)
            => str_join(<<>>, released[i]) \o BufferedText(i)
                   = str_join(<<>>, FedChunks(i))

C6_Witness ==
    \E i \in Insts :
        /\ OnlyFed(i)
        /\ Len(released[i]) >= 2
        /\ BufferedText(i) # EmptyText
        /\ RemainderDone(i)

(***************************************************************************)
(* C7                                                                      *)
(***************************************************************************)

C8_SplitAtFirstPeriod ==
    Called =>
        IF ~HasPeriod(last.text)
        THEN last.boundary = <<>>
        ELSE /\ Len(last.boundary) = 2
             /\ last.boundary[1] = SubSeq(last.text, 1, FirstPeriod(last.text))
             /\ last.boundary[2] = SubSeq(last.text, FirstPeriod(last.text) + 1,
                                          Len(last.text))
             /\ last.boundary[1] \o last.boundary[2] = last.text

C8_Witness ==
    /\ Called
    /\ Len(last.boundary) = 2
    /\ HasPeriod(last.boundary[2])
    /\ last.boundary[2][Len(last.boundary[2])] # "."

(***************************************************************************)
(* C9                                                                      *)
(***************************************************************************)

\* C9: a call that releases a unit leaves the buffer [leftover], invokes
\* validate exactly once, on the unit, and returns validate's result with
\* validated_chunk set to the unit unless validate had set it already.
C9_ReleaseContract ==
    (Called /\ Len(last.split_contents) = 2)
        => /\ accumulated_chunks(last.inst) = <<last.split_contents[2]>>
           /\ last.validated = <<last.split_contents[1]>>
           /\ last.returned.outcome # "raise"
                  => /\ last.result.outcome = last.returned.outcome
                     /\ last.result.validated_chunk =
                            IF last.returned.validated_chunk # None
                            THEN last.returned.validated_chunk
                            ELSE Some(last.split_contents[1])

C9_Witness ==
    /\ Called /\ Len(last.split_contents) = 2
    /\ last.split_contents[2] # EmptyText
    /\ last.returned.outcome = "fail"
    /\ last.returned.validated_chunk = Some(SetByValidate)
    /\ last.result.validated_chunk = Some(SetByValidate)

(***************************************************************************)
(* C10                                                                     *)
(***************************************************************************)

\* C10 (as claimed): once a call with remainder=true has completed on an
\* instance, no later call changes that instance's buffer or releases a
\* unit from it.
C10_DoneIsTerminal ==
    [][\A i \in Insts :
          RemainderDone(i)
              => /\ accumulated_chunks(i)' = accumulated_chunks(i)
                 /\ released'[i] = released[i]]_vars

\* C10 (amended): a call with remainder=true leaves the buffer [""], and the
\* next call on that instance proceeds as on a fresh buffer: its accumulated
\* text is its chunk alone, and it releases a unit exactly when remainder is
\* set again or the chunk holds a period.
C10_RemainderStartsAfresh ==
    (/\ Called
     /\ Len(fed[last.inst]) >= 2
     /\ fed[last.inst][Len(fed[last.inst]) - 1].remainder)
        => /\ last.before = <<EmptyText>>
           /\ last.text = last.chunk
           /\ (last.validated # <<>>) <=> (last.remainder \/ HasPeriod(last.chunk))

C10_Witness ==
    /\ Called
    /\ Len(fed[last.inst]) >= 2
    /\ fed[last.inst][Len(fed[last.inst]) - 1].remainder
    /\ ~last.remainder
    /\ last.validated # <<>>
    /\ Len(released[last.inst]) >= 2

(***************************************************************************)
(* Tree propagation: check_refrain and filter_in_schema                    *)
(***************************************************************************)

\* Assembly steps explored before the tree is propagated.
MaxBuild == 4

TreeKeys == {"a", "b"}

\* What one assembly step may put into a container: scalars, the two
\* sentinels, and empty containers.
TreeLeaves == {Scalar("1"), Scalar("2"), FilterSentinel, RefrainSentinel,
               ListOf(<<>>), DictOf(<<>>)}

IsContainer(n) == n.kind \in {"list", "dict"}

RECURSIVE check_refrain_in_list(_), check_refrain_in_dict(_)

check_refrain_in_dict_shallow(schema) ==
    \E k \in 1..Len(schema.items) : schema.items[k].items[1].kind = "Refrain"

\* check_refrain_in_list: some item is a Refrain, or a list or dict holding one.
check_refrain_in_list(schema) ==
    \E k \in 1..Len(schema.items) :
        LET item == schema.items[k]
        IN  \/ item.kind = "Refrain"
            \/ item.kind = "list" /\ check_refrain_in_list(item)
            \/ item.kind = "dict" /\ check_refrain_in_dict(item)

\* check_refrain_in_dict: the same over the values of schema.items().
check_refrain_in_dict(schema) ==
    \E k \in 1..Len(schema.items) :
        LET value == schema.items[k].items[1]
        IN  \/ value.kind = "Refrain"
            \/ value.kind = "list" /\ check_refrain_in_list(value)
            \/ value.kind = "dict" /\ check_refrain_in_dict(value)

check_refrain(schema) ==
    IF schema.kind = "list" THEN check_refrain_in_list(schema)
    ELSE check_refrain_in_dict(schema)

RECURSIVE filter_in_list(_), filter_in_dict(_), filter_list_item(_),
          filter_dict_entry(_), filter_list_items(_), filter_dict_entries(_)

filter_list_item_tests_unfiltered(item) ==
    IF item.kind = "Filter" THEN <<>>
    ELSE IF item.kind = "list"
         THEN IF Len(item.items) > 0 THEN <<filter_in_list(item)>> ELSE <<>>
    ELSE IF item.kind = "dict"
         THEN IF Len(item.items) > 0 THEN <<filter_in_dict(item)>> ELSE <<>>
    ELSE <<item>>

filter_list_item_drops_sentinels(item) ==
    IF item.kind \in {"Filter", "Refrain"} THEN <<>>
    ELSE IF item.kind = "list"
         THEN LET filtered_item == filter_in_list(item)
              IN  IF Len(filtered_item.items) > 0 THEN <<filtered_item>> ELSE <<>>
    ELSE IF item.kind = "dict"
         THEN LET filtered_dict == filter_in_dict(item)
              IN  IF Len(filtered_dict.items) > 0 THEN <<filtered_dict>> ELSE <<>>
    ELSE <<item>>

filter_list_item_drops_dicts(item) ==
    IF item.kind = "Filter" THEN <<>>
    ELSE IF item.kind = "list"
         THEN LET filtered_item == filter_in_list(item)
              IN  IF Len(filtered_item.items) > 0 THEN <<filtered_item>> ELSE <<>>
    ELSE IF item.kind = "dict" THEN <<>>
    ELSE <<item>>

\* One turn of the loop of filter_in_list: what the item appends to
\* filtered_list (nothing, or one item).
filter_list_item(item) ==
    IF item.kind = "Filter" THEN <<>>
    ELSE IF item.kind = "list"
         THEN LET filtered_item == filter_in_list(item)
              IN  IF Len(filtered_item.items) > 0 THEN <<filtered_item>> ELSE <<>>
    ELSE IF item.kind = "dict"
         THEN LET filtered_dict == filter_in_dict(item)
              IN  IF Len(filtered_dict.items) > 0 THEN <<filtered_dict>> ELSE <<>>
    ELSE <<item>>

filter_dict_entry_keeps_filter(entry) ==
    LET key == entry.val
        value == entry.items[1]
    IN  IF value.kind = "list"
        THEN LET filtered_item == filter_in_list(value)
             IN  IF Len(filtered_item.items) > 0 THEN <<Entry(key, filtered_item)>>
                 ELSE <<>>
        ELSE IF value.kind = "dict" THEN <<Entry(key, filter_in_dict(value))>>
        ELSE <<entry>>

filter_dict_entry_drops_empty_dict(entry) ==
    LET key == entry.val
        value == entry.items[1]
    IN  IF value.kind = "Filter" THEN <<>>
        ELSE IF value.kind = "list"
        THEN LET filtered_item == filter_in_list(value)
             IN  IF Len(filtered_item.items) > 0 THEN <<Entry(key, filtered_item)>>
                 ELSE <<>>
        ELSE IF value.kind = "dict"
        THEN LET filtered_item == filter_in_dict(value)
             IN  IF Len(filtered_item.items) > 0 THEN <<Entry(key, filtered_item)>>
                 ELSE <<>>
        ELSE <<entry>>

\* One turn of the loop of filter_in_dict: what the (key, value) pair puts
\* into filtered_dict (nothing, or one entry).
filter_dict_entry(entry) ==
    LET key == entry.val
        value == entry.items[1]
    IN  IF value.kind = "Filter" THEN <<>>
        ELSE IF value.kind = "list"
        THEN LET filtered_item == filter_in_list(value)
             IN  IF Len(filtered_item.items) > 0 THEN <<Entry(key, filtered_item)>>
                 ELSE <<>>
        ELSE IF value.kind = "dict" THEN <<Entry(key, filter_in_dict(value))>>
        ELSE <<entry>>

\* for item in schema: ...
filter_list_items(items) ==
    IF items = <<>> THEN <<>>
    ELSE filter_list_item(Head(items)) \o filter_list_items(Tail(items))

\* for key, value in schema.items(): ...
filter_dict_entries(entries) ==
    IF entries = <<>> THEN <<>>
    ELSE filter_dict_entry(Head(entries)) \o filter_dict_entries(Tail(entries))

filter_in_list(schema) == ListOf(filter_list_items(schema.items))

filter_in_dict(schema) == DictOf(filter_dict_entries(schema.items))

filter_in_schema(schema) ==
    IF schema.kind = "list" THEN filter_in_list(schema)
    ELSE filter_in_dict(schema)

(***************************************************************************)
(* The same functions with object identity: which objects they mutate and  *)
(* which objects they return.  An object of the argument is named by the   *)
(* path of positions that leads to it from the root; the list or dict a    *)
(* call creates is named by the path of the argument it was created for.   *)
(***************************************************************************)

\* The object at `path` of the tree passed in.
InSchema(path) == <<"schema", path>>

\* filtered_list = [] / filtered_dict = {}: the object created by the call
\* that filters the container at `path`.
Created(path) == <<"filtered", path>>

\* A value together with the identity of the object that holds it.
Tagged(n, items, origin) ==
    [kind |-> n.kind, val |-> n.val, items |-> items, origin |-> origin]

\* The value at position k of a list, or of the k-th key of a dict.
ValueOf(schema, k) ==
    IF schema.kind = "dict" THEN schema.items[k].items[1] ELSE schema.items[k]

RECURSIVE check_refrain_writes(_, _), check_refrain_writes_from(_, _, _)

\* check_refrain_in_list / check_refrain_in_dict hold no statement that
\* assigns to, appends to or deletes from an object: the objects a call
\* mutates are those its nested calls mutate.
check_refrain_writes(schema, path) == check_refrain_writes_from(schema, path, 1)

check_refrain_writes_from(schema, path, k) ==
    IF k > Len(schema.items) THEN {}
    ELSE LET value == ValueOf(schema, k)
         IN  IF value.kind = "Refrain" THEN {}       \* return True
             ELSE IF IsContainer(value)
                  THEN IF check_refrain(value)
                       THEN check_refrain_writes(value, Append(path, k))
                       ELSE check_refrain_writes(value, Append(path, k))
                                \cup check_refrain_writes_from(schema, path, k + 1)
             ELSE check_refrain_writes_from(schema, path, k + 1)

MutatedObject_in_place(path) == InSchema(path)

\* filtered_list.append(...) / filtered_dict[key] = ...: the object the
\* loop of the call at `path` mutates.
MutatedObject(path) == Created(path)

RECURSIVE filter_effects(_, _), filter_effects_from(_, _, _)

\* One turn of the loop: what is put into the created object and which
\* objects are mutated by it.
filter_item_effects(schema, path, k) ==
    LET value == ValueOf(schema, k)
        put(v) == IF schema.kind = "dict"
                  THEN <<Tagged(schema.items[k], <<v>>, Created(path))>>
                  ELSE <<v>>
    IN  IF value.kind = "Filter" THEN [items |-> <<>>, writes |-> {}]
        ELSE IF IsContainer(value)
        THEN LET r == filter_effects(value, Append(path, k))
             IN  IF Len(r.value.items) > 0
                        \/ (schema.kind = "dict" /\ value.kind = "dict")
                 THEN [items |-> put(r.value),
                       writes |-> r.writes \cup {MutatedObject(path)}]
                 ELSE [items |-> <<>>, writes |-> r.writes]
        ELSE \* the scalar itself, not a copy, is put into the new object
             [items |-> put(Tagged(value, <<>>, InSchema(Append(path, k)))),
              writes |-> {MutatedObject(path)}]

filter_effects_from(schema, path, k) ==
    IF k > Len(schema.items) THEN [items |-> <<>>, writes |-> {}]
    ELSE LET head == filter_item_effects(schema, path, k)
             rest == filter_effects_from(schema, path, k + 1)
         IN  [items |-> head.items \o rest.items,
              writes |-> head.writes \cup rest.writes]

\* filter_in_list / filter_in_dict on the container at `path`: the object
\* returned and the objects mutated.
filter_effects(schema, path) ==
    LET loop == filter_effects_from(schema, path, 1)
    IN  [value |-> Tagged(schema, loop.items, Created(path)),
         writes |-> loop.writes]

\* The single refrain signal that replaces a refrained output.
GlobalRefrain == [kind |-> "GlobalRefrain", val |-> "", items |-> <<>>]

\* The orchestrator's use of the two algorithms on a completed tree.
Deliver(schema) ==
    IF check_refrain(schema) THEN GlobalRefrain ELSE filter_in_schema(schema)

Keys(schema) == {schema.items[k].val : k \in 1..Len(schema.items)}

Building == prop.state = "none" /\ nbuilt < MaxBuild

\* The orchestrator appends a value to the list under assembly.
AddItem(x) ==
    /\ Building /\ tree.kind = "list"
    /\ tree' = ListOf(Append(tree.items, x))
    /\ refrain_added' = (refrain_added \/ x = RefrainSentinel)
    /\ nbuilt' = nbuilt + 1
    /\ UNCHANGED <<prop, streamVars, runtimeVars, promptVars>>

\* The orchestrator sets a new key of the mapping under assembly.
AddEntry(key, x) ==
    /\ Building /\ tree.kind = "dict" /\ key \notin Keys(tree)
    /\ tree' = DictOf(Append(tree.items, Entry(key, x)))
    /\ refrain_added' = (refrain_added \/ x = RefrainSentinel)
    /\ nbuilt' = nbuilt + 1
    /\ UNCHANGED <<prop, streamVars, runtimeVars, promptVars>>

\* The tree under assembly becomes the only item of a new list.
WrapInList ==
    /\ Building
    /\ tree' = ListOf(<<tree>>)
    /\ nbuilt' = nbuilt + 1
    /\ UNCHANGED <<refrain_added, prop, streamVars, runtimeVars, promptVars>>

\* The tree under assembly becomes the value of the only key of a new mapping.
WrapInDict(key) ==
    /\ Building
    /\ tree' = DictOf(<<Entry(key, tree)>>)
    /\ nbuilt' = nbuilt + 1
    /\ UNCHANGED <<refrain_added, prop, streamVars, runtimeVars, promptVars>>

\* Tree propagation on the completed tree.
Propagate ==
    /\ prop.state = "none"
    /\ prop' = [state |-> "propagated", input |-> tree,
                refrain |-> check_refrain(tree),
                filtered |-> filter_in_schema(tree),
                again |-> ListOf(<<>>),
                delivered |-> Deliver(tree),
                refrain_after |-> check_refrain(filter_in_schema(tree)),
                check_writes |-> check_refrain_writes(tree, <<>>),
                effects |-> filter_effects(tree, <<>>)]
    /\ UNCHANGED <<tree, refrain_added, nbuilt, streamVars, runtimeVars, promptVars>>

\* filter_in_schema applied to its own output.
FilterAgain ==
    /\ prop.state = "propagated"
    /\ prop' = [prop EXCEPT !.state = "refiltered",
                            !.again = filter_in_schema(prop.filtered)]
    /\ UNCHANGED <<tree, refrain_added, nbuilt, streamVars, runtimeVars, promptVars>>

InitTree ==
    /\ StreamIdle /\ RuntimeIdle /\ PromptIdle
    /\ tree \in {ListOf(<<>>), DictOf(<<>>)}
    /\ refrain_added = FALSE
    /\ nbuilt = 0
    /\ prop = NoProp

NextTree ==
    \/ \E x \in TreeLeaves : AddItem(x)
    \/ \E key \in TreeKeys, x \in TreeLeaves : AddEntry(key, x)
    \/ WrapInList
    \/ \E key \in TreeKeys : WrapInDict(key)
    \/ Propagate
    \/ FilterAgain

SpecTree == InitTree /\ [][NextTree]_vars

(***************************************************************************)
(* Vocabulary of the tree properties                                       *)
(***************************************************************************)

Propagated == prop.state # "none"

\* Every node of a tree: the tree itself and all that is nested in it.
RECURSIVE Descendants(_)
Descendants(n) ==
    {n} \cup UNION {Descendants(n.items[k]) : k \in 1..Len(n.items)}

NoSentinel(n) == \A d \in Descendants(n) : d.kind \notin {"Filter", "Refrain"}

\* The scalars of a tree that are not Filter sentinels, in traversal order,
\* each with the chain of mapping keys that leads to it.
RECURSIVE LeafPaths(_, _)
LeafPaths(n, path) ==
    IF n.kind = "Filter" THEN <<>>
    ELSE IF n.kind = "entry" THEN LeafPaths(n.items[1], Append(path, n.val))
    ELSE IF IsContainer(n)
         THEN IF n.items = <<>> THEN <<>>
              ELSE LeafPaths(Head(n.items), path)
                       \o LeafPaths([n EXCEPT !.items = Tail(n.items)], path)
    ELSE <<[path |-> path, leaf |-> n]>>

\* A container that is empty once filtered.
FiltersToEmpty(n) == IsContainer(n) /\ filter_in_schema(n).items = <<>>

\* The value the mapping holds under the key, as an optional value.
ValueAt(schema, key) ==
    IF key \in Keys(schema)
    THEN Some((CHOOSE e \in {schema.items[k] : k \in 1..Len(schema.items)} :
                   e.val = key).items[1])
    ELSE None

(***************************************************************************)
(* C11                                                                     *)
(***************************************************************************)

\* C11: check_refrain of a tree is true exactly when a Refrain sentinel was
\* put into the tree, at whatever depth it ended up.
C11_RefrainFoundIffPresent ==
    Propagated => (prop.refrain <=> refrain_added)

C11_Witness ==
    /\ Propagated /\ prop.refrain
    /\ \A k \in 1..Len(prop.input.items) :
           /\ prop.input.items[k].kind # "Refrain"
           /\ \A j \in 1..Len(prop.input.items[k].items) :
                  prop.input.items[k].items[j].kind # "Refrain"

(***************************************************************************)
(* C12                                                                     *)
(***************************************************************************)

\* C12: what tree propagation delivers is the single refrain signal when a
\* Refrain was in the tree, and otherwise a tree without any Filter or
\* Refrain sentinel at any depth.
C12_NoSentinelDelivered ==
    Propagated =>
        IF refrain_added
        THEN prop.delivered = GlobalRefrain
        ELSE IsContainer(prop.delivered) /\ NoSentinel(prop.delivered)

C12_Witness ==
    /\ Propagated /\ ~refrain_added
    /\ IsContainer(prop.delivered) /\ prop.delivered.items # <<>>
    /\ \E k \in 1..Len(prop.input.items) :
           /\ prop.input.items[k].kind # "Filter"
           /\ ~NoSentinel(prop.input.items[k])

(***************************************************************************)
(* C13                                                                     *)
(***************************************************************************)

\* C13: filtering the output of filter_in_schema again changes nothing.
C13_FilterIdempotent ==
    prop.state = "refiltered" => prop.again = prop.filtered

C13_Witness ==
    /\ prop.state = "refiltered"
    /\ prop.filtered # prop.input
    /\ prop.again = prop.filtered
    /\ \E d \in Descendants(prop.filtered) : d.kind = "dict" /\ d.items = <<>>
    /\ prop.filtered.items # <<>>

(***************************************************************************)
(* C14                                                                     *)
(***************************************************************************)

\* In the output of filter_in_list no item is an empty container.
EmptyContainersLeaveLists ==
    prop.input.kind = "list"
        => \A k \in 1..Len(prop.filtered.items) :
               IsContainer(prop.filtered.items[k])
                   => prop.filtered.items[k].items # <<>>

\* C14 (as claimed): a list drops every nested container that is empty after
\* filtering; a mapping keeps every key whose value is a container (list or
\* mapping) that is empty after filtering, with the empty container as value.
C14_MappingKeepsEmptyContainers ==
    Propagated =>
        /\ EmptyContainersLeaveLists
        /\ prop.input.kind = "dict"
               => \A k \in 1..Len(prop.input.items) :
                      LET key == prop.input.items[k].val
                          value == prop.input.items[k].items[1]
                      IN  FiltersToEmpty(value)
                              => ValueAt(prop.filtered, key)
                                     = Some(filter_in_schema(value))

\* C14 (amended): a list drops every nested container that is empty after
\* filtering; a mapping keeps a key whose value is a mapping that is empty
\* after filtering, with the empty mapping as value, and drops a key whose
\* value is a list that is empty after filtering.
C14_MappingKeepsEmptyDictsOnly ==
    Propagated =>
        /\ EmptyContainersLeaveLists
        /\ prop.input.kind = "dict"
               => \A k \in 1..Len(prop.input.items) :
                      LET key == prop.input.items[k].val
                          value == prop.input.items[k].items[1]
                      IN  FiltersToEmpty(value)
                              => IF value.kind = "dict"
                                 THEN ValueAt(prop.filtered, key) = Some(DictOf(<<>>))
                                 ELSE ValueAt(prop.filtered, key) = None

C14_Witness ==
    /\ Propagated /\ prop.input.kind = "dict"
    /\ \E k \in 1..Len(prop.input.items) :
           LET value == prop.input.items[k].items[1]
           IN  /\ value.kind = "dict" /\ value.items # <<>>
               /\ FiltersToEmpty(value)
               /\ ValueAt(prop.filtered, prop.input.items[k].val) = Some(DictOf(<<>>))
    /\ \E k \in 1..Len(prop.input.items) :
           LET value == prop.input.items[k].items[1]
           IN  /\ value.kind = "list"
               /\ FiltersToEmpty(value)
               /\ ValueAt(prop.filtered, prop.input.items[k].val) = None

(***************************************************************************)
(* C15                                                                     *)
(***************************************************************************)

\* C15: the scalars that are not Filter sentinels are in the output what
\* they are in the input: the same values under the same chains of mapping
\* keys, in the same order.
C15_ScalarsSurvive ==
    Propagated => LeafPaths(prop.filtered, <<>>) = LeafPaths(prop.input, <<>>)

C15_Witness ==
    /\ Propagated
    /\ prop.filtered # prop.input
    /\ Len(LeafPaths(prop.input, <<>>)) >= 2
    /\ \E k \in 1..Len(LeafPaths(prop.input, <<>>)) :
           LeafPaths(prop.input, <<>>)[k].path # <<>>
    /\ \E d \in Descendants(prop.input) : d.kind = "Filter"

(***************************************************************************)
(* Validator runtime: __init__, validate, __call__, invoke, _inference,    *)
(* _hub_inference_request                                                  *)
(***************************************************************************)

\* Calls explored on the constructed Validator.
MaxOps == 2

\* OnFailAction
OnFailActions == {"NOOP", "FIX", "FILTER", "REFRAIN", "EXCEPTION", "FIX_REASK",
                  "REASK", "CUSTOM"}

\* The on_fail argument of __init__: None, an OnFailAction member, a string
\* (the name of a member or not), or a callable.
OnFailArgs ==
    {[kind |-> "None", name |-> ""], [kind |-> "callable", name |-> ""],
     [kind |-> "str", name |-> "fix"], [kind |-> "str", name |-> "bogus"]}
        \cup {[kind |-> "member", name |-> a] : a \in OnFailActions}

\* The use_local argument: a bool or None.
UseLocalArgs == {"True", "False", "None"}

\* Credentials.from_rc_file(): none, or credentials with remote inference
\* enabled or disabled.
CredentialsFound == {"none", "remote_on", "remote_off"}

\* The validation_endpoint argument: empty or a URL.
EndpointArgs == {<<>>, <<"https://endpoint">>}

\* A `token` attribute of the instance: __init__ sets none; a subclass may.
TokenAttrs == {None, Some("subclass_token")}

\* get_jwt_token(creds)
get_jwt_token(creds) == <<"jwt", creds>>

\* remote_inference.get_use_remote_inference(creds)
get_use_remote_inference(creds) == creds = "remote_on"

\* str.upper() of the member names the model feeds as strings.
upper(name) == IF name = "fix" THEN "FIX" ELSE "BOGUS"

\* bool(self.use_local)
Truthy(use_local) == use_local = "True"

\* Lines 448-465: (on_fail_descriptor, on_fail_method) for an on_fail argument.
OnFailAttributes(on_fail) ==
    IF on_fail.kind = "None"
    THEN [on_fail_descriptor |-> "NOOP", on_fail_method |-> "none"]
    ELSE IF on_fail.kind = "member"
    THEN [on_fail_descriptor |-> on_fail.name, on_fail_method |-> "none"]
    ELSE IF on_fail.kind = "str" /\ upper(on_fail.name) \in OnFailActions
    THEN [on_fail_descriptor |-> upper(on_fail.name), on_fail_method |-> "none"]
    ELSE [on_fail_descriptor |-> "custom",
          on_fail_method |-> IF on_fail.kind = "callable" THEN "callable"
                             ELSE "not_callable"]

\* Lines 423-428: the endpoint kept when none was given.
DefaultEndpoint(validation_endpoint) ==
    IF validation_endpoint = <<>>
    THEN validation_endpoint \o <<"/validator/", "rail_alias", "/inference">>
    ELSE validation_endpoint

\* Validator.__init__
Construct(use_local, validation_endpoint, on_fail, creds, token) ==
    /\ validator.state = "none"
    /\ LET attrs == OnFailAttributes(on_fail)
           made == [state |-> "constructed", use_local |-> use_local,
                    creds |-> creds, hub_jwt_token |-> None, token |-> token,
                    validation_endpoint |-> DefaultEndpoint(validation_endpoint),
                    on_fail_descriptor |-> attrs.on_fail_descriptor,
                    on_fail_method |-> attrs.on_fail_method]
       IN  IF use_local = "None"
           THEN IF creds = "none"
                THEN \* PermissionError: no instance comes to exist
                     /\ validator' = [NoValidator EXCEPT !.state = "failed"]
                     /\ ev' = [NoEvent EXCEPT !.op = "__init__",
                                              !.raised = "PermissionError"]
                ELSE /\ validator' =
                         [made EXCEPT
                             !.hub_jwt_token = Some(get_jwt_token(creds)),
                             !.use_local =
                                 IF get_use_remote_inference(creds) THEN "False"
                                 ELSE "True"]
                     /\ ev' = [NoEvent EXCEPT !.op = "__init__"]
           ELSE /\ validator' = made
                /\ ev' = [NoEvent EXCEPT !.op = "__init__"]
    /\ UNCHANGED <<nops, streamVars, treeVars, promptVars>>

\* What a user-supplied _validate may return for a value, or raise.
ValidationResults ==
    { [outcome |-> "pass", value_override |-> None, fix_value |-> None],
      [outcome |-> "pass", value_override |-> Some("fixed"), fix_value |-> None],
      [outcome |-> "fail", value_override |-> None, fix_value |-> None],
      [outcome |-> "fail", value_override |-> None, fix_value |-> Some("fixed")],
      [outcome |-> "raise", value_override |-> None, fix_value |-> None] }

\* What a custom on_fail callback may do: return a value or raise.
CallbackOutcomes == {"returns", "raises"}

\* ValidatorServiceBase.perform_correction: the action resolver.
perform_correction(result, value, on_fail_descriptor, on_fail_method, callback) ==
    LET done(v) == [raised |-> "", returned |-> Some(v),
                    corrected_with |-> Some(on_fail_descriptor)]
        fails(e) == [raised |-> e, returned |-> None,
                     corrected_with |-> Some(on_fail_descriptor)]
    IN  IF on_fail_descriptor = "NOOP" THEN done(value)
        ELSE IF on_fail_descriptor = "FIX"
             THEN IF result.fix_value # None THEN done(result.fix_value[1])
                  ELSE done(value)
        ELSE IF on_fail_descriptor = "FILTER" THEN done("Filter")
        ELSE IF on_fail_descriptor = "REFRAIN" THEN done("Refrain")
        ELSE IF on_fail_descriptor = "EXCEPTION" THEN fails("ValidationError")
        ELSE IF on_fail_descriptor \in {"REASK", "FIX_REASK"} THEN done("FieldReAsk")
        ELSE IF on_fail_method = "callable"
             THEN IF callback = "returns" THEN done("callback_value")
                  ELSE fails("CallbackError")
        ELSE fails("TypeError")

Callable == validator.state = "constructed" /\ nops < MaxOps

\* Validator.validate
Validate(value) ==
    /\ Callable
    /\ nops' = nops + 1
    /\ \E result \in ValidationResults :
           ev' = [NoEvent EXCEPT
                     !.op = "validate", !.value = value, !.validation = result,
                     !.raised = IF result.outcome = "raise" THEN "ValidateError"
                                ELSE "",
                     !.returned = IF result.outcome = "raise" THEN None
                                  ELSE Some(result.outcome)]
    /\ UNCHANGED <<validator, streamVars, treeVars, promptVars>>

call_returns_override(value, result, correction) ==
    IF result.outcome = "fail" THEN correction
    ELSE [raised |-> "",
          returned |-> IF result.value_override # None THEN result.value_override
                       ELSE Some(value),
          corrected_with |-> None]

\* Lines 674-681: what __call__ hands back for validate's result.
call_returns(value, result, correction) ==
    IF result.outcome = "fail" THEN correction
    ELSE [raised |-> "", returned |-> Some(value), corrected_with |-> None]

\* Validator.__call__
Call(value) ==
    /\ Callable
    /\ nops' = nops + 1
    /\ \E result \in ValidationResults, callback \in CallbackOutcomes :
           LET correction == perform_correction(result, value,
                                 validator.on_fail_descriptor,
                                 validator.on_fail_method, callback)
               out == call_returns(value, result, correction)
           IN  ev' = IF result.outcome = "raise"
                     THEN [NoEvent EXCEPT !.op = "__call__", !.value = value,
                                          !.validation = result,
                                          !.raised = "ValidateError"]
                     ELSE [NoEvent EXCEPT !.op = "__call__", !.value = value,
                                          !.validation = result,
                                          !.raised = out.raised,
                                          !.returned = out.returned,
                                          !.corrected_with = out.corrected_with]
    /\ UNCHANGED <<validator, streamVars, treeVars, promptVars>>

\* Validator.invoke
Invoke(str_input, input_is_chat_message) ==
    /\ Callable
    /\ nops' = nops + 1
    /\ \E response \in ValidationResults :
           LET seen == [NoEvent EXCEPT !.op = "invoke", !.value = str_input,
                            !.input_is_chat_message = input_is_chat_message,
                            !.validation = response]
           IN  ev' = IF response.outcome = "raise"
                     THEN [seen EXCEPT !.raised = "ValidateError"]
                     ELSE IF response.outcome = "fail"
                     THEN [seen EXCEPT !.raised = "ValidationError"]
                     ELSE [seen EXCEPT !.returned = Some(str_input),
                                       !.returned_is_message = input_is_chat_message]
    /\ UNCHANGED <<validator, streamVars, treeVars, promptVars>>

\* Lines 525-537: the engine _inference hands the input to.
inference_target(use_local) ==
    IF Truthy(use_local) THEN "local" ELSE "remote"

\* Validator._inference
Inference ==
    /\ Callable
    /\ nops' = nops + 1
    /\ ev' = [NoEvent EXCEPT !.op = "_inference",
                             !.dispatched = <<inference_target(validator.use_local)>>]
    /\ UNCHANGED <<validator, streamVars, treeVars, promptVars>>

\* What the hub may answer to the POST: the call itself fails, or a reply
\* comes with a success or error status and a body that is a JSON object,
\* other JSON, or not JSON.
HubResponses ==
    {[kind |-> "post_raises", ok |-> FALSE, body |-> ""]}
        \cup {[kind |-> "reply", ok |-> ok, body |-> body] :
                 ok \in BOOLEAN, body \in {"json_object", "json_other", "not_json"}}

\* Lines 610-617: what becomes of the reply of requests.post.
handle_response(response) ==
    IF response.kind = "post_raises" \/ response.body = "not_json"
    THEN [returned |-> None, logged |-> 1]      \* except Exception: log
    ELSE IF response.ok THEN [returned |-> Some(response.body), logged |-> 0]
    ELSE IF response.body = "json_object"
    THEN [returned |-> Some(response.body), logged |-> 2]
    ELSE \* body.get raises AttributeError after the status was logged
         [returned |-> None, logged |-> 2]

\* Validator._hub_inference_request
HubInferenceRequest(response) ==
    /\ Callable
    /\ nops' = nops + 1
    /\ IF validator.token = None
       THEN \* self.token raises AttributeError inside the try block
            ev' = [NoEvent EXCEPT !.op = "_hub_inference_request",
                                  !.logged = 1]
       ELSE LET got == handle_response(response)
            IN  ev' = [NoEvent EXCEPT
                          !.op = "_hub_inference_request",
                          !.requests = <<[url |-> validator.validation_endpoint,
                                          authorization |->
                                              <<"Bearer", validator.token[1]>>]>>,
                          !.response = response,
                          !.returned = got.returned,
                          !.logged = got.logged]
    /\ UNCHANGED <<validator, streamVars, treeVars, promptVars>>

InitRuntime == StreamIdle /\ TreeIdle /\ RuntimeIdle /\ PromptIdle

NextRuntime ==
    \/ \E use_local \in UseLocalArgs, validation_endpoint \in EndpointArgs,
          on_fail \in OnFailArgs, creds \in CredentialsFound, token \in TokenAttrs :
           Construct(use_local, validation_endpoint, on_fail, creds, token)
    \/ Validate("value")
    \/ Call("value")
    \/ \E input_is_chat_message \in BOOLEAN : Invoke("value", input_is_chat_message)
    \/ Inference
    \/ \E response \in HubResponses : HubInferenceRequest(response)

SpecRuntime == InitRuntime /\ [][NextRuntime]_vars

(***************************************************************************)
(* Vocabulary of the runtime claims                                        *)
(***************************************************************************)

\* The most recent call went through validate and got a FailResult / a
\* PassResult.
Failed == ev.validation.outcome = "fail"
Passed == ev.validation.outcome = "pass"

\* The public entry points observed in `ev`.
EntryPoints == {"validate", "__call__", "invoke"}

\* The on-fail policies that absorb a failure into the resolved value.
AbsorbingPolicies == {"NOOP", "FIX", "FILTER", "REFRAIN"}

\* __init__ went through the credentials branch (lines 414-421) and the
\* credentials enable remote inference.
HoldsCredentialToken == validator.hub_jwt_token # None
RemoteEnabled == validator.creds = "remote_on"

(***************************************************************************)
(* C16                                                                     *)
(***************************************************************************)

\* C16 (as claimed): when validation fails and the on-fail policy is NOOP,
\* FIX, FILTER or REFRAIN, every public entry point returns a value and
\* raises nothing.
C16_AbsorbedFailureNeverRaises ==
    (ev.op \in EntryPoints /\ Failed
        /\ validator.on_fail_descriptor \in AbsorbingPolicies)
        => ev.raised = "" /\ ev.returned # None

(***************************************************************************)
(* C17                                                                     *)
(***************************************************************************)

\* C17 (as claimed): when validation yields Pass, the resolved value is the
\* result's fixed value if one is present and the original value otherwise,
\* and no on-fail policy branch is taken.
C17_PassResolvesToFixedValue ==
    (ev.op \in {"__call__", "invoke"} /\ Passed)
        => /\ ev.returned = IF ev.validation.value_override # None
                            THEN ev.validation.value_override
                            ELSE Some(ev.value)
           /\ ev.corrected_with = None

\* C17 (amended): when validation yields Pass, __call__ and invoke hand back
\* the original value (invoke: its text, inside a copy of the message when
\* the input was a chat message) whether or not the result carries a fixed
\* value; nothing is raised and no on-fail policy branch is taken.
C17_PassResolvesToOriginalValue ==
    (ev.op \in {"__call__", "invoke"} /\ Passed)
        => /\ ev.returned = Some(ev.value)
           /\ ev.returned_is_message = ev.input_is_chat_message
           /\ ev.raised = ""
           /\ ev.corrected_with = None

C17_Witness ==
    /\ ev.op = "__call__" /\ Passed
    /\ ev.validation.value_override = Some("fixed")
    /\ ev.returned = Some("value")
    /\ validator.on_fail_descriptor = "FIX"

(***************************************************************************)
(* C18                                                                     *)
(***************************************************************************)

\* C18 (as claimed): _inference dispatches each call to exactly one engine,
\* and to the remote one only when the validator holds a hub token obtained
\* from credentials and those credentials enable remote inference; in every
\* other configuration it dispatches to the local one.
C18_RemoteOnlyWithTokenAndRemoteEnabled ==
    ev.op = "_inference"
        => /\ Len(ev.dispatched) = 1
           /\ ev.dispatched[1] = IF HoldsCredentialToken /\ RemoteEnabled
                                 THEN "remote" ELSE "local"

(***************************************************************************)
(* C19                                                                     *)
(***************************************************************************)

\* C19 (as claimed): a remote inference request of a validator constructed
\* with credentials in remote mode is sent once, to the validator's
\* endpoint, with an Authorization bearer header carrying the token obtained
\* from those credentials at construction.
C19_RequestCarriesCredentialToken ==
    (ev.op = "_hub_inference_request" /\ HoldsCredentialToken
        /\ ~Truthy(validator.use_local))
        => ev.requests = <<[url |-> validator.validation_endpoint,
                            authorization |->
                                <<"Bearer", validator.hub_jwt_token[1]>>]>>

(***************************************************************************)
(* C20                                                                     *)
(***************************************************************************)

\* C20 (as claimed): _hub_inference_request never raises and issues at most
\* one request per call; on a non-success status it logs and returns the
\* body it received; on an exception during the call it logs and returns
\* without a body.
C20_LogsAndReturnsReceivedBody ==
    ev.op = "_hub_inference_request"
        => /\ ev.raised = ""
           /\ Len(ev.requests) <= 1
           /\ (ev.response.kind = "reply" /\ ~ev.response.ok
                  /\ ev.response.body # "not_json")
                  => ev.logged > 0 /\ ev.returned = Some(ev.response.body)
           /\ (ev.requests = <<>> \/ ev.response.kind = "post_raises"
                  \/ ev.response.body = "not_json")
                  => ev.logged > 0 /\ ev.returned = None

(***************************************************************************)
(* C21                                                                     *)
(***************************************************************************)

\* C21 (as claimed): construction of a Validator whose use_local is not true
\* fails with PermissionError whenever no credentials are available, so no
\* constructed validator that dispatches to remote inference is without
\* credentials.
C21_NoRemoteValidatorWithoutCredentials ==
    /\ (validator.state = "constructed" /\ ~Truthy(validator.use_local))
           => validator.creds # "none"
    /\ (ev.op = "_inference" /\ ev.dispatched = <<"remote">>)
           => validator.creds # "none"

(***************************************************************************)
(* Prompt rendering and equality: to_prompt, __eq__                        *)
(***************************************************************************)

\* rail_alias of two registered validator classes.
RailAliases == {<<"x">>, <<"y">>}

\* Keyword names a validator class may take.
KwargNames == {<<"a">>, <<"b">>}

\* A keyword value: an int or a str.
IntValue(n) == [type |-> "int", n |-> n, s |-> <<>>]
StrValue(s) == [type |-> "str", n |-> 0, s |-> s]

\* The values fed: the int 1, the strings "1" and "2", and a string with a
\* space and an equals sign in it.
KwargValues == {IntValue(1), StrValue(<<"1">>), StrValue(<<"2">>),
                StrValue(<<"1", " ", "b", "=", "2">>)}

\* One item of the **kwargs dict, which keeps insertion order.
KwargItems == {[k |-> k, v |-> v] : k \in KwargNames, v \in KwargValues}

\* The **kwargs a call may pass: none, one, or two with different names.
KwargDicts ==
    {<<>>} \cup {<<e>> : e \in KwargItems}
        \cup {kw \in {<<e, f>> : e \in KwargItems, f \in KwargItems} :
                 kw[1].k # kw[2].k}

Validators == {ValidatorWith(a, kw) : a \in RailAliases, kw \in KwargDicts}

\* str(v) of a keyword value
DecimalDigits == <<"0", "1", "2", "3", "4", "5", "6", "7", "8", "9">>
str(v) == IF v.type = "int" THEN <<DecimalDigits[v.n + 1]>> ELSE v.s

\* Lines 639-642: the copy of _kwargs with every value turned into a str.
StringifiedKwargs(self) ==
    [i \in 1..Len(self._kwargs) |->
        [k |-> self._kwargs[i].k, v |-> str(self._kwargs[i].v)]]

\* Validator.to_prompt
to_prompt(self, with_keywords) ==
    IF Len(self._kwargs) = 0 THEN self.rail_alias
    ELSE LET kwargs == StringifiedKwargs(self)
             values == [i \in 1..Len(kwargs) |-> kwargs[i].v]
             pairs == [i \in 1..Len(kwargs) |->
                          kwargs[i].k \o <<"=">> \o kwargs[i].v]
             params == IF with_keywords THEN str_join(<<" ">>, pairs)
                       ELSE str_join(<<" ">>, values)
         IN  self.rail_alias \o <<":", " ">> \o params

eq_compares_kwargs(self, other) ==
    IF ~other.is_validator THEN FALSE
    ELSE self.rail_alias = other.rail_alias /\ self._kwargs = other._kwargs

\* Validator.__eq__
eq(self, other) ==
    IF ~other.is_validator THEN FALSE
    ELSE to_prompt(self, TRUE) = to_prompt(other, TRUE)

\* Two objects come to exist: a Validator and something to compare it with.
NewPair(self, other) ==
    /\ ~left.is_validator
    /\ left' = self
    /\ right' = other
    /\ cmp' = NoCmp
    /\ UNCHANGED <<streamVars, treeVars, runtimeVars>>

\* left == right
Equals ==
    /\ left.is_validator
    /\ ~cmp.done
    /\ cmp' = [done |-> TRUE, equal |-> eq(left, right),
               left_prompt |-> to_prompt(left, TRUE),
               right_prompt |-> IF right.is_validator THEN to_prompt(right, TRUE)
                                ELSE <<>>]
    /\ UNCHANGED <<left, right, streamVars, treeVars, runtimeVars>>

InitPrompt == StreamIdle /\ TreeIdle /\ RuntimeIdle /\ PromptIdle

NextPrompt ==
    \/ \E self \in Validators, other \in Validators \cup {NotAValidator} :
           NewPair(self, other)
    \/ Equals

SpecPrompt == InitPrompt /\ [][NextPrompt]_vars

(***************************************************************************)
(* C22                                                                     *)
(***************************************************************************)

\* Two Validator instances were compared.
Compared == cmp.done /\ right.is_validator

\* The kwargs as a dict: the set of its (name, value) items.
AsDict(kwargs) == {<<kwargs[i].k, kwargs[i].v>> : i \in 1..Len(kwargs)}

\* The names of the kwargs, in insertion order.
Names(kwargs) == [i \in 1..Len(kwargs) |-> kwargs[i].k]

\* No str form of a value holds a space or an equals sign.
PlainValues(self) ==
    \A i \in 1..Len(self._kwargs) :
        \A j \in 1..Len(str(self._kwargs[i].v)) :
            str(self._kwargs[i].v)[j] \notin {" ", "="}

\* C22 (as claimed): two Validator instances compare equal iff their
\* to_prompt() renderings are equal; with identical rail_alias and kwargs
\* they compare equal, and with the same rail_alias and kwargs that differ
\* in a key or in a value they compare unequal.
C22_DifferingKwargsCompareUnequal ==
    Compared =>
        /\ cmp.equal <=> (to_prompt(left, TRUE) = to_prompt(right, TRUE))
        /\ (left.rail_alias = right.rail_alias /\ left._kwargs = right._kwargs)
               => cmp.equal
        /\ (left.rail_alias = right.rail_alias
               /\ AsDict(left._kwargs) # AsDict(right._kwargs))
               => ~cmp.equal

\* C22 (amended): two Validator instances compare equal iff their
\* to_prompt() renderings are equal; with identical rail_alias and kwargs
\* (same names in the same order, same values) they compare equal; with the
\* same rail_alias they compare unequal when the kwargs, taken with every
\* value in its str form, differ and no str form holds a space or an equals
\* sign; kwargs that differ only in the type of a value whose str form is
\* the same (1 and "1") compare equal.
C22_EqualIffSameRendering ==
    Compared =>
        /\ cmp.equal <=> (to_prompt(left, TRUE) = to_prompt(right, TRUE))
        /\ (left.rail_alias = right.rail_alias /\ left._kwargs = right._kwargs)
               => cmp.equal
        /\ (left.rail_alias = right.rail_alias
               /\ StringifiedKwargs(left) # StringifiedKwargs(right)
               /\ PlainValues(left) /\ PlainValues(right))
               => ~cmp.equal
        /\ (left.rail_alias = right.rail_alias
               /\ StringifiedKwargs(left) = StringifiedKwargs(right))
               => cmp.equal

C22_Witness ==
    /\ Compared /\ cmp.equal
    /\ left.rail_alias = right.rail_alias
    /\ Names(left._kwargs) = Names(right._kwargs)
    /\ AsDict(left._kwargs) # AsDict(right._kwargs)
    /\ \E i \in 1..Len(left._kwargs) :
           left._kwargs[i].v.type # right._kwargs[i].v.type

(***************************************************************************)
(* C23                                                                     *)
(***************************************************************************)

\* C23 (as claimed): after construction the policy is one OnFailAction
\* member and no callback is held (NOOP when no on_fail was given), or the
\* policy is custom and a callable callback is held; no on_fail argument
\* yields a custom policy whose callback is not callable.
C23_MemberOrCallableCallback ==
    validator.state = "constructed" =>
        \/ /\ validator.on_fail_descriptor \in OnFailActions
           /\ validator.on_fail_method = "none"
        \/ /\ validator.on_fail_descriptor = "custom"
           /\ validator.on_fail_method = "callable"

(***************************************************************************)
(* C24                                                                     *)
(***************************************************************************)

\* The most recent validate_stream call released a unit to validate.
ReleasedUnit == last.inst # "none" /\ last.validated # <<>>

\* C24: in a validate_stream call that releases a unit, the buffer after the
\* call is the leftover of the split whether validate returned Pass,
\* returned Fail or raised, and the released unit is no longer in it: the
\* text of the call is the unit followed by what the buffer now holds.
C24_BufferIsLeftoverWhateverValidateDoes ==
    ReleasedUnit =>
        /\ accumulated_chunks(last.inst) = <<last.split_contents[2]>>
        /\ last.text = last.validated[1] \o BufferedText(last.inst)

C24_Witness ==
    /\ ReleasedUnit
    /\ last.returned.outcome = "raise"
    /\ last.before # <<>>
    /\ BufferedText(last.inst) # EmptyText
    /\ accumulated_chunks(last.inst) = <<last.split_contents[2]>>

(***************************************************************************)
(* C25                                                                     *)
(***************************************************************************)

\* C25: filtering never hides or creates a refrain: for every tree rooted
\* at a list or mapping, check_refrain of the filtered tree equals
\* check_refrain of the tree.
C25_FilterKeepsRefrain ==
    Propagated =>
        /\ prop.refrain_after = prop.refrain
        /\ prop.refrain_after = check_refrain(prop.filtered)

\* A tree with a Refrain nested in a container, from which filtering
\* removed a Filter sentinel, and in which the refrain is still found.
C25_Witness ==
    /\ Propagated
    /\ prop.refrain /\ prop.refrain_after
    /\ prop.filtered # prop.input
    /\ \E k \in 1..Len(prop.input.items) :
           \E d \in Descendants(prop.input.items[k]) :
               /\ IsContainer(d)
               /\ \E j \in 1..Len(d.items) : d.items[j].kind = "Refrain"
    /\ \E d \in Descendants(prop.input) : d.kind = "Filter"

(***************************************************************************)
(* C26                                                                     *)
(***************************************************************************)

RECURSIVE Untagged(_)
\* A tagged value without the identities.
Untagged(n) ==
    [kind |-> n.kind, val |-> n.val,
     items |-> [k \in 1..Len(n.items) |-> Untagged(n.items[k])]]

\* C26: after check_refrain and after filter_in_schema the tree passed in
\* is unchanged at every level: neither call mutates an object of its
\* argument; every list and dict in what filter_in_schema returns was
\* created by the call.
C26_ArgumentUntouched ==
    Propagated =>
        /\ tree = prop.input
        /\ prop.check_writes = {}
        /\ \A w \in prop.effects.writes : w[1] # "schema"
        /\ \A d \in Descendants(prop.effects.value) :
               IsContainer(d) => d.origin[1] = "filtered"
        /\ Untagged(prop.effects.value) = prop.filtered

\* A nested tree from which an item was filtered out and a nested container
\* dropped, while nested containers were kept.
C26_Witness ==
    /\ Propagated
    /\ tree = prop.input
    /\ prop.filtered # prop.input
    /\ Cardinality(prop.effects.writes) >= 2
    /\ \E k \in 1..Len(prop.effects.value.items) :
           \E d \in Descendants(prop.effects.value.items[k]) :
               IsContainer(d) /\ d.origin[1] = "filtered"
    /\ \E d \in Descendants(prop.input) : IsContainer(d) /\ d # prop.input
                                             /\ FiltersToEmpty(d)

=============================================================================
